---- MODULE Spec2Model ----
(***************************************************************************)
(* Model of FileSyncTool:                                                  *)
(*   - the file-sync engine of the main process: copyDirSync,              *)
(*     executeSyncMapping and the IPC handlers sync:executeAll and         *)
(*     sync:executeOne of handlers/syncHandlers.ts (the revision with      *)
(*     path.resolve, the file-into-directory rule and executed/failed);    *)
(*   - readDirectoryTree and the handlers fs:readTree, fs:readFile and     *)
(*     fs:writeFile of handlers/fileHandlers.ts;                           *)
(*   - handleOpenFile, handleContentChange, handleCommit, handleSync and   *)
(*     handleSaveSyncMappings of the renderer (MainLayout.tsx).            *)
(* The filesystem is a function from the absolute paths that exist to      *)
(* "dir" or to the content of a regular file.  A path is the sequence of   *)
(* its components; <<>> is the root directory.                             *)
(***************************************************************************)
EXTENDS Integers, Sequences, FiniteSets, TLC

\* ------------------------------------------------------------------------
\* Bounds of the model
\* ------------------------------------------------------------------------
\* entries the environment creates before a single sync:executeOne
MaxNodes == 3
\* entries the environment creates before a sync:executeAll batch
MaxBatchNodes == 1
\* mappings in one sync:executeAll batch
MaxBatch == 2
\* entries the environment creates before a batch that is followed round by
\* round
MaxStepNodes == 2
\* longest path (in components) the filesystem accepts (ENAMETOOLONG beyond)
PathMax == 4
\* entries the environment creates before a directory tree is read
MaxTreeNodes == 4
\* directories the process is not allowed to list
MaxDenied == 1
\* largest depth readDirectoryTree is called with directly
MaxDepth == 2
\* entries the environment creates before a directory tree is read for its
\* order
MaxSortNodes == 3
\* clicks on the commit and the sync button
MaxClicks == 2
\* mappings in the list of the sync configuration dialog
MaxLocal == 2
\* the values of the wall clock, in milliseconds
MaxTime == 2
\* sync requests the renderer invokes
MaxRequests == 2

Names == {"a", "b"}
Contents == {"x", "y"}
Ids == {"1", "2"}

\* the working directory of the main process, against which path.resolve
\* resolves relative paths
Cwd == <<"a">>

NoErr == "ok"

\* ------------------------------------------------------------------------
\* path module
\* ------------------------------------------------------------------------
Front(p) == SubSeq(p, 1, Len(p) - 1)

\* path.join(dir, name) for a plain entry name
join(p, name) == Append(p, name)

\* path.dirname of an absolute path; the root is its own dirname
dirname(p) == IF p = <<>> THEN <<>> ELSE Front(p)

\* path.basename of an absolute path; "" for the root
basename(p) == IF p = <<>> THEN "" ELSE p[Len(p)]

\* normalisation step of path.resolve: "." is dropped, ".." pops one
\* component (and stays at the root), anything else is appended
RECURSIVE normalize(_, _)
normalize(acc, segs) ==
    IF segs = <<>> THEN acc
    ELSE LET s == Head(segs)
         IN IF s = "." THEN normalize(acc, Tail(segs))
            ELSE IF s = ".." THEN normalize(dirname(acc), Tail(segs))
            ELSE normalize(Append(acc, s), Tail(segs))

\* path.resolve(raw): a raw path is [abs, segs]; a relative path (the empty
\* string included) is resolved against the working directory
resolve(raw) == normalize(IF raw.abs THEN <<>> ELSE Cwd, raw.segs)

\* p is q or lies below q
IsPrefix(q, p) == Len(q) <= Len(p) /\ SubSeq(p, 1, Len(q)) = q

\* ------------------------------------------------------------------------
\* fs module (synchronous calls); each mutating call yields [fs, err]
\* ------------------------------------------------------------------------
existsSync(f, p) == p \in DOMAIN f

isDirectory(f, p) == f[p] = "dir"

\* the ancestors of p (p included) that are missing, as a set
Ancestors(p) == {SubSeq(p, 1, i) : i \in 0..Len(p)}

Extend(f, new, val) ==
    [q \in (DOMAIN f) \cup new |-> IF q \in DOMAIN f /\ q \notin new THEN f[q] ELSE val[q]]

\* fs.mkdirSync(p, {recursive: true})
mkdirSync(f, p) ==
    IF Len(p) > PathMax THEN [fs |-> f, err |-> "ENAMETOOLONG"]
    ELSE IF \E q \in Ancestors(p) : q \in DOMAIN f /\ f[q] # "dir"
         THEN [fs |-> f, err |-> IF p \in DOMAIN f THEN "EEXIST" ELSE "ENOTDIR"]
    ELSE LET new == Ancestors(p) \ DOMAIN f
         IN [fs |-> Extend(f, new, [q \in new |-> "dir"]), err |-> NoErr]

\* open(p, O_WRONLY | O_CREAT | O_TRUNC) followed by writing content
writeFileSync(f, p, content) ==
    IF Len(p) > PathMax THEN [fs |-> f, err |-> "ENAMETOOLONG"]
    ELSE IF p \in DOMAIN f /\ f[p] = "dir" THEN [fs |-> f, err |-> "EISDIR"]
    ELSE IF dirname(p) \notin DOMAIN f THEN [fs |-> f, err |-> "ENOENT"]
    ELSE IF f[dirname(p)] # "dir" THEN [fs |-> f, err |-> "ENOTDIR"]
    ELSE [fs |-> Extend(f, {p}, [q \in {p} |-> content]), err |-> NoErr]

\* fs.copyFileSync(s, d): s is a regular file; copying a file onto itself
\* leaves it as it is
copyFileSync(f, s, d) ==
    IF s \notin DOMAIN f THEN [fs |-> f, err |-> "ENOENT"]
    ELSE IF f[s] = "dir" THEN [fs |-> f, err |-> "EISDIR"]
    ELSE IF s = d THEN [fs |-> f, err |-> NoErr]
    ELSE writeFileSync(f, d, f[s])

\* fs.readdirSync(p, {withFileTypes: true}) of an existing directory: the
\* entries in the listing order of the filesystem, each with its kind
readdirSync(f, p, ord) ==
    LET present == SelectSeq(ord, LAMBDA n : join(p, n) \in DOMAIN f)
    IN [i \in 1..Len(present) |->
          [name |-> present[i], isDir |-> f[join(p, present[i])] = "dir"]]

\* ------------------------------------------------------------------------
\* syncHandlers.ts
\* ------------------------------------------------------------------------
Ok(f) == [fs |-> f, err |-> NoErr]

\* copyDirSync(src, dest): an exception of any fs call ends the copy at once
\* and is returned as err; what was copied before it stays
RECURSIVE copyDirSync(_, _, _, _), copyEntries(_, _, _, _, _), copyListed(_, _, _, _),
          copyNext(_, _, _, _, _)

\* variant: an existing dest receives the copy in dest/basename(src)
copyDirSync_IntoExisting(f, src, dest, ord) ==
    IF existsSync(f, dest)
    THEN copyListed(IF ~existsSync(f, join(dest, basename(src)))
                    THEN mkdirSync(f, join(dest, basename(src))) ELSE Ok(f),
                    src, join(dest, basename(src)), ord)
    ELSE copyListed(mkdirSync(f, dest), src, dest, ord)

\* variant: the destination is made without its missing ancestors
copyDirSync_NotRecursive(f, src, dest, ord) ==
    copyListed(IF existsSync(f, dest) THEN Ok(f)
               ELSE IF ~existsSync(f, dirname(dest)) THEN [fs |-> f, err |-> "ENOENT"]
               ELSE mkdirSync(f, dest),
               src, dest, ord)

copyDirSync(f, src, dest, ord) ==
    copyListed(IF ~existsSync(f, dest) THEN mkdirSync(f, dest) ELSE Ok(f), src, dest, ord)

\* copyDirSync after dest was ensured: the entries of src are read and copied
copyListed(made, src, dest, ord) ==
    IF made.err # NoErr THEN made
    ELSE copyEntries(made.fs, src, dest, readdirSync(made.fs, src, ord), ord)

\* the for loop of copyDirSync over the entries read before the loop
copyEntries(f, src, dest, entries, ord) ==
    IF entries = <<>> THEN Ok(f)
    ELSE copyNext(IF Head(entries).isDir
                  THEN copyDirSync(f, join(src, Head(entries).name),
                                   join(dest, Head(entries).name), ord)
                  ELSE copyFileSync(f, join(src, Head(entries).name),
                                    join(dest, Head(entries).name)),
                  src, dest, Tail(entries), ord)

\* variant: the loop goes on after an entry failed and the first error is
\* thrown at the end
copyNext_KeepGoing(r, src, dest, rest, ord) ==
    IF r.err # NoErr THEN [fs |-> copyEntries(r.fs, src, dest, rest, ord).fs, err |-> r.err]
    ELSE copyEntries(r.fs, src, dest, rest, ord)

\* the loop goes on with the remaining entries unless the copy r threw
copyNext(r, src, dest, rest, ord) ==
    IF r.err # NoErr THEN r ELSE copyEntries(r.fs, src, dest, rest, ord)

None == "none"

\* how a block of code ends: it returns a value or it throws
Return(f, result) == [fs |-> f, thrown |-> NoErr, result |-> result]
Throw(f, err) == [fs |-> f, thrown |-> err, result |-> None]

\* a message is the sequence of its parts, each a literal text <<text>> or a
\* path; String(error) of an exception thrown by an fs call
ErrorString(err) == <<<<"Error: ">>, <<err>>>>

\* return { success: true, detail } unless the fs calls before it threw
Synced(done, text, sourcePath, destPath) ==
    IF done.err # NoErr THEN Throw(done.fs, done.err)
    ELSE Return(done.fs,
                [success |-> TRUE,
                 detail |-> <<<<text>>, sourcePath, <<" -> ">>, destPath>>])

\* variant: the file is moved, the source is gone once the target is written
renamed(w, sourcePath) ==
    IF w.err # NoErr THEN w
    ELSE [fs |-> [q \in DOMAIN w.fs \ {sourcePath} |-> w.fs[q]], err |-> NoErr]

readAndWrite_Move(made, sourcePath, finalTarget) ==
    IF made.err # NoErr THEN made
    ELSE renamed(writeFileSync(made.fs, finalTarget, made.fs[sourcePath]), sourcePath)

\* fs.readFileSync(sourcePath) and fs.writeFileSync(finalTarget, content)
\* once the directory of the target was ensured
readAndWrite(made, sourcePath, finalTarget) ==
    IF made.err # NoErr THEN made
    ELSE writeFileSync(made.fs, finalTarget, made.fs[sourcePath])

\* variant: the target is always the destination file
syncFile_NoDirectoryRule(f, sourcePath, targetPath) ==
    Synced(readAndWrite(IF ~existsSync(f, dirname(targetPath))
                        THEN mkdirSync(f, dirname(targetPath)) ELSE Ok(f),
                        sourcePath, targetPath),
           "file synced: ", sourcePath, targetPath)

\* variant: an existing destination file is kept as it is
syncFile_KeepExisting(f, sourcePath, targetPath) ==
    LET intoDir == existsSync(f, targetPath) /\ isDirectory(f, targetPath)
        finalTarget == IF intoDir THEN join(targetPath, basename(sourcePath))
                       ELSE targetPath
    IN IF existsSync(f, finalTarget) /\ ~isDirectory(f, finalTarget)
       THEN Synced(Ok(f), "file synced: ", sourcePath, finalTarget)
       ELSE Synced(readAndWrite(IF ~intoDir /\ ~existsSync(f, dirname(finalTarget))
                                THEN mkdirSync(f, dirname(finalTarget)) ELSE Ok(f),
                                sourcePath, finalTarget),
                   "file synced: ", sourcePath, finalTarget)

\* the file branch of executeSyncMapping (source is an existing file)
syncFile(f, sourcePath, targetPath) ==
    LET intoDir == existsSync(f, targetPath) /\ isDirectory(f, targetPath)
        finalTarget == IF intoDir THEN join(targetPath, basename(sourcePath))
                       ELSE targetPath
    IN Synced(readAndWrite(IF ~intoDir /\ ~existsSync(f, dirname(finalTarget))
                           THEN mkdirSync(f, dirname(finalTarget)) ELSE Ok(f),
                           sourcePath, finalTarget),
              "file synced: ", sourcePath, finalTarget)

\* the try block of executeSyncMapping once both paths are resolved
syncResolved(f, sourcePath, targetPath, ord) ==
    IF ~existsSync(f, sourcePath)
    THEN Return(f, [success |-> FALSE,
                    error |-> <<<<"source path does not exist: ">>, sourcePath>>])
    ELSE IF isDirectory(f, sourcePath)
    THEN Synced(copyDirSync(f, sourcePath, targetPath, ord),
                "directory synced: ", sourcePath, targetPath)
    ELSE syncFile(f, sourcePath, targetPath)

\* syncResolved on the filesystem a preceding fs call left, unless it threw
syncAfter(made, sourcePath, targetPath, ord) ==
    IF made.err # NoErr THEN Throw(made.fs, made.err)
    ELSE syncResolved(made.fs, sourcePath, targetPath, ord)

\* variant: the directory of the target is made before the source is checked
executeSyncMappingTry_MkdirFirst(f, mapping, ord) ==
    syncAfter(IF ~existsSync(f, dirname(resolve(mapping.target)))
              THEN mkdirSync(f, dirname(resolve(mapping.target))) ELSE Ok(f),
              resolve(mapping.source), resolve(mapping.target), ord)

\* the try block of executeSyncMapping
executeSyncMappingTry(f, mapping, ord) ==
    syncResolved(f, resolve(mapping.source), resolve(mapping.target), ord)

\* the catch clause of executeSyncMapping: an exception t of the try block
\* becomes a failure result
catch(t) ==
    IF t.thrown # NoErr
    THEN Return(t.fs, [success |-> FALSE, error |-> ErrorString(t.thrown)])
    ELSE t

\* variant: no catch clause, an exception of the try block propagates
executeSyncMapping_NoCatch(f, mapping, ord) == executeSyncMappingTry(f, mapping, ord)

\* executeSyncMapping(mapping): the filesystem it leaves and what it returns
executeSyncMapping(f, mapping, ord) == catch(executeSyncMappingTry(f, mapping, ord))

\* { id: mapping.id, ...result }
WithId(mapping, result) == [id |-> mapping.id] @@ result

\* what ipcRenderer.invoke gets when the handler throws
Rejected(err) == [rejected |-> err]

\* the loop of sync:executeAll from mapping i on: disabled mappings are
\* skipped, the others run one after the other on the filesystem the
\* previous ones left; an exception that reaches the loop ends the handler
RECURSIVE executeLoop(_, _, _, _, _), pushResult(_, _, _, _, _),
          executeLoop_MergeIds(_, _, _, _, _), pushResult_MergeIds(_, _, _, _, _),
          executeLoop_NoSkip(_, _, _, _, _), pushResult_NoSkip(_, _, _, _, _),
          executeLoop_StopOnFailure(_, _, _, _, _), pushResult_StopOnFailure(_, _, _, _, _)

\* variant: the enabled flag is not looked at
executeLoop_NoSkip(f, mappings, i, results, ord) ==
    IF i > Len(mappings) THEN Return(f, results)
    ELSE pushResult_NoSkip(executeSyncMapping(f, mappings[i], ord), mappings, i, results, ord)

pushResult_NoSkip(r, mappings, i, results, ord) ==
    IF r.thrown # NoErr THEN Throw(r.fs, r.thrown)
    ELSE executeLoop_NoSkip(r.fs, mappings, i + 1,
                            Append(results, WithId(mappings[i], r.result)), ord)

\* variant: a mapping whose id already has a result is skipped
executeLoop_MergeIds(f, mappings, i, results, ord) ==
    IF i > Len(mappings) THEN Return(f, results)
    ELSE IF ~mappings[i].enabled
            \/ \E k \in 1..Len(results) : results[k].id = mappings[i].id
         THEN executeLoop_MergeIds(f, mappings, i + 1, results, ord)
    ELSE pushResult_MergeIds(executeSyncMapping(f, mappings[i], ord),
                             mappings, i, results, ord)

pushResult_MergeIds(r, mappings, i, results, ord) ==
    IF r.thrown # NoErr THEN Throw(r.fs, r.thrown)
    ELSE executeLoop_MergeIds(r.fs, mappings, i + 1,
                              Append(results, WithId(mappings[i], r.result)), ord)

\* variant: the loop ends at the first mapping that fails
executeLoop_StopOnFailure(f, mappings, i, results, ord) ==
    IF i > Len(mappings) THEN Return(f, results)
    ELSE IF ~mappings[i].enabled
         THEN executeLoop_StopOnFailure(f, mappings, i + 1, results, ord)
    ELSE pushResult_StopOnFailure(executeSyncMapping(f, mappings[i], ord),
                                  mappings, i, results, ord)

pushResult_StopOnFailure(r, mappings, i, results, ord) ==
    IF r.thrown # NoErr THEN Throw(r.fs, r.thrown)
    ELSE IF ~r.result.success
         THEN Return(r.fs, Append(results, WithId(mappings[i], r.result)))
    ELSE executeLoop_StopOnFailure(r.fs, mappings, i + 1,
                                   Append(results, WithId(mappings[i], r.result)), ord)

executeLoop(f, mappings, i, results, ord) ==
    IF i > Len(mappings) THEN Return(f, results)
    ELSE IF ~mappings[i].enabled THEN executeLoop(f, mappings, i + 1, results, ord)
    ELSE pushResult(executeSyncMapping(f, mappings[i], ord), mappings, i, results, ord)

\* results.push({ id: mapping.id, ...result }) and the next round of the loop
pushResult(r, mappings, i, results, ord) ==
    IF r.thrown # NoErr THEN Throw(r.fs, r.thrown)
    ELSE executeLoop(r.fs, mappings, i + 1,
                     Append(results, WithId(mappings[i], r.result)), ord)

\* results.filter((r) => !r.success).length
RECURSIVE CountFailed(_), CountFailed_Succeeded(_)

\* variant: the results that succeeded are counted
CountFailed_Succeeded(results) ==
    IF results = <<>> THEN 0
    ELSE (IF Head(results).success THEN 1 ELSE 0) + CountFailed_Succeeded(Tail(results))

CountFailed(results) ==
    IF results = <<>> THEN 0
    ELSE (IF Head(results).success THEN 0 ELSE 1) + CountFailed(Tail(results))

\* return { success: true, results, executed, failed }
batchReturn(run, flag) ==
    IF run.thrown # NoErr THEN [fs |-> run.fs, ret |-> Rejected(run.thrown)]
    ELSE [fs |-> run.fs,
          ret |-> [success |-> flag, results |-> run.result,
                   executed |-> Len(run.result),
                   failed |-> CountFailed(run.result)]]

\* variant: the batch flag tells whether every mapping succeeded
executeAll_FlagFromFailed(f, mappings, ord) ==
    batchReturn(executeLoop(f, mappings, 1, <<>>, ord),
                CountFailed(executeLoop(f, mappings, 1, <<>>, ord).result) = 0)

\* the handler of sync:executeAll: the filesystem it leaves and its return
executeAll(f, mappings, ord) ==
    batchReturn(executeLoop(f, mappings, 1, <<>>, ord), TRUE)

\* return { id: mapping.id, ...result }
oneReturn(mapping, r) ==
    IF r.thrown # NoErr THEN [fs |-> r.fs, ret |-> Rejected(r.thrown)]
    ELSE [fs |-> r.fs, ret |-> WithId(mapping, r.result)]

\* variant: a disabled mapping is skipped as in the loop of sync:executeAll
executeOne_SkipDisabled(f, mapping, ord) ==
    IF ~mapping.enabled
    THEN [fs |-> f, ret |-> WithId(mapping, [success |-> FALSE, error |-> <<<<"disabled">>>>])]
    ELSE oneReturn(mapping, executeSyncMapping(f, mapping, ord))

\* the handler of sync:executeOne
executeOne(f, mapping, ord) == oneReturn(mapping, executeSyncMapping(f, mapping, ord))

\* ------------------------------------------------------------------------
\* fileHandlers.ts
\* ------------------------------------------------------------------------
\* the names of the entries of a directory tree; the last two stand for the
\* two spellings of one accented name, precomposed and decomposed, which are
\* different file names and canonically equivalent strings
TreeNames == {".git", ".gitignore", "node_modules", "src", "Z", "cafe(NFC)", "cafe(NFD)"}

\* entry.name.startsWith('.')
startsWithDot(name) == name \in {".git", ".gitignore"}

\* the place of a name in the collation order String.prototype.localeCompare
\* compares by: punctuation before letters, letters by alphabet before case,
\* canonically equivalent strings at the same place
collation(name) ==
    CASE name = ".git" -> 1
      [] name = ".gitignore" -> 2
      [] name = "a" -> 3
      [] name = "b" -> 4
      [] name \in {"cafe(NFC)", "cafe(NFD)"} -> 5
      [] name = "node_modules" -> 6
      [] name = "src" -> 7
      [] name = "Z" -> 8

\* variant: the names compare by their UTF-16 code units
localeCompare_CodeUnits(a, b) ==
    LET code == [n \in TreeNames \cup Names |->
                   CASE n = ".git" -> 1 [] n = ".gitignore" -> 2 [] n = "Z" -> 3
                     [] n = "a" -> 4 [] n = "b" -> 5 [] n = "cafe(NFD)" -> 6
                     [] n = "cafe(NFC)" -> 7 [] n = "node_modules" -> 8 [] n = "src" -> 9]
    IN IF code[a] < code[b] THEN -1 ELSE IF code[a] > code[b] THEN 1 ELSE 0

\* a.localeCompare(b)
localeCompare(a, b) ==
    IF collation(a) < collation(b) THEN -1
    ELSE IF collation(a) > collation(b) THEN 1 ELSE 0

\* the comparator of nodes.sort: directories first, then by name
compareNodes(a, b) ==
    IF a.isDirectory /\ ~b.isDirectory THEN -1
    ELSE IF ~a.isDirectory /\ b.isDirectory THEN 1
    ELSE localeCompare(a.name, b.name)

\* Array.prototype.sort is stable: a node goes behind the nodes it does not
\* precede, so nodes that compare equal keep the order they were pushed in
RECURSIVE insertNode(_, _)
insertNode(sorted, node) ==
    IF sorted = <<>> THEN <<node>>
    ELSE IF compareNodes(node, sorted[Len(sorted)]) < 0
         THEN Append(insertNode(Front(sorted), node), sorted[Len(sorted)])
    ELSE Append(sorted, node)

RECURSIVE sortNodes(_)
sortNodes(nodes) ==
    IF nodes = <<>> THEN <<>>
    ELSE insertNode(sortNodes(Front(nodes)), nodes[Len(nodes)])

\* fs.readdirSync(dirPath) throws: the path is missing, is no directory, or
\* the process is not allowed to list it
readdirError(f, p, den) ==
    IF p \notin DOMAIN f THEN "ENOENT"
    ELSE IF f[p] # "dir" THEN "ENOTDIR"
    ELSE IF p \in den THEN "EACCES"
    ELSE NoErr

RECURSIVE readDirectoryTree(_, _, _, _, _), treeNodes(_, _, _, _, _, _),
          readDirectoryTree_NoGitignore(_, _, _, _, _), treeNodes_NoGitignore(_, _, _, _, _, _),
          readDirectoryTree_Unbounded(_, _, _, _, _), readDirectoryTree_Propagate(_, _, _, _, _)

\* variant: every node is made with a children field
fileNode_WithChildren(name, fullPath) ==
    [name |-> name, path |-> fullPath, isDirectory |-> FALSE, children |-> <<>>]

\* a file node has no children field
fileNode(name, fullPath) == [name |-> name, path |-> fullPath, isDirectory |-> FALSE]

dirNode(name, fullPath, children) ==
    [name |-> name, path |-> fullPath, isDirectory |-> TRUE, children |-> children]

\* variant: .gitignore is skipped like every other name with a leading dot
treeNodes_NoGitignore(f, dirPath, entries, depth, ord, den) ==
    IF entries = <<>> THEN <<>>
    ELSE IF startsWithDot(Head(entries).name) \/ Head(entries).name = "node_modules"
         THEN treeNodes_NoGitignore(f, dirPath, Tail(entries), depth, ord, den)
    ELSE <<IF Head(entries).isDir
           THEN dirNode(Head(entries).name, join(dirPath, Head(entries).name),
                        readDirectoryTree_NoGitignore(f, join(dirPath, Head(entries).name),
                                                      depth - 1, ord, den))
           ELSE fileNode(Head(entries).name, join(dirPath, Head(entries).name))>>
         \o treeNodes_NoGitignore(f, dirPath, Tail(entries), depth, ord, den)

readDirectoryTree_NoGitignore(f, dirPath, depth, ord, den) ==
    IF depth <= 0 THEN <<>>
    ELSE IF readdirError(f, dirPath, den) # NoErr THEN <<>>
    ELSE sortNodes(treeNodes_NoGitignore(f, dirPath, readdirSync(f, dirPath, ord),
                                         depth, ord, den))

\* the for loop of readDirectoryTree: the nodes in the order of the listing
treeNodes(f, dirPath, entries, depth, ord, den) ==
    IF entries = <<>> THEN <<>>
    ELSE IF (startsWithDot(Head(entries).name) /\ Head(entries).name # ".gitignore")
            \/ Head(entries).name = "node_modules"
         THEN treeNodes(f, dirPath, Tail(entries), depth, ord, den)
    ELSE <<IF Head(entries).isDir
           THEN dirNode(Head(entries).name, join(dirPath, Head(entries).name),
                        readDirectoryTree(f, join(dirPath, Head(entries).name),
                                          depth - 1, ord, den))
           ELSE fileNode(Head(entries).name, join(dirPath, Head(entries).name))>>
         \o treeNodes(f, dirPath, Tail(entries), depth, ord, den)

\* variant: the recursion does not stop at depth 0
readDirectoryTree_Unbounded(f, dirPath, depth, ord, den) ==
    IF readdirError(f, dirPath, den) # NoErr THEN <<>>
    ELSE sortNodes(treeNodes(f, dirPath, readdirSync(f, dirPath, ord), depth, ord, den))

\* variant: a listing that fails empties the listing of the parent too
readDirectoryTree_Propagate(f, dirPath, depth, ord, den) ==
    IF depth <= 0 THEN <<>>
    ELSE IF readdirError(f, dirPath, den) # NoErr
            \/ \E n \in TreeNames : /\ depth > 1
                                    /\ join(dirPath, n) \in DOMAIN f
                                    /\ f[join(dirPath, n)] = "dir"
                                    /\ readdirError(f, join(dirPath, n), den) # NoErr
         THEN <<>>
    ELSE sortNodes(treeNodes(f, dirPath, readdirSync(f, dirPath, ord), depth, ord, den))

\* readDirectoryTree(dirPath, depth): an exception of readdirSync is caught
\* and gives the empty sequence
readDirectoryTree(f, dirPath, depth, ord, den) ==
    IF depth <= 0 THEN <<>>
    ELSE IF readdirError(f, dirPath, den) # NoErr THEN <<>>
    ELSE sortNodes(treeNodes(f, dirPath, readdirSync(f, dirPath, ord), depth, ord, den))

\* the depth the handler of fs:readTree passes
ReadTreeDepth == 10

\* the handler of fs:readTree
readTree(f, dirPath, ord, den) == readDirectoryTree(f, dirPath, ReadTreeDepth, ord, den)

\* fs.writeFileSync(filePath, content) once the directory was ensured
writeAfter(made, filePath, content) ==
    IF made.err # NoErr THEN made ELSE writeFileSync(made.fs, filePath, content)

\* the try/catch of fs:writeFile: { success: true } or the caught error
writeFileReturn(w) ==
    [fs |-> w.fs,
     ret |-> IF w.err # NoErr THEN [success |-> FALSE, error |-> ErrorString(w.err)]
             ELSE [success |-> TRUE]]

\* the handler of fs:writeFile
writeFile(f, filePath, content) ==
    writeFileReturn(writeAfter(IF ~existsSync(f, dirname(filePath))
                               THEN mkdirSync(f, dirname(filePath)) ELSE Ok(f),
                               filePath, content))

\* the handler of fs:readFile
readFile(f, filePath) ==
    IF ~existsSync(f, filePath) THEN [success |-> FALSE, error |-> ErrorString("ENOENT")]
    ELSE IF isDirectory(f, filePath) THEN [success |-> FALSE, error |-> ErrorString("EISDIR")]
    ELSE [success |-> TRUE, content |-> f[filePath]]

\* ------------------------------------------------------------------------
\* inputs
\* ------------------------------------------------------------------------
Abs(segs) == [abs |-> TRUE, segs |-> segs]
Rel(segs) == [abs |-> FALSE, segs |-> segs]

\* the raw paths a mapping of a single sync:executeOne may carry
RawPaths ==
    {Abs(<<"a">>), Abs(<<"b">>), Abs(<<"a", "a">>), Abs(<<"b", "a">>), Abs(<<"b", "b">>),
     Rel(<<>>), Rel(<<".", "b">>), Rel(<<"..">>), Rel(<<"..", "b">>)}

Mappings ==
    [id : Ids, source : RawPaths, target : RawPaths, enabled : BOOLEAN]

\* the source and target of the mappings of a batch: a file copy, a copy
\* whose source is the target of the first, a target below its own source,
\* and a copy back
BatchPairs ==
    { <<Abs(<<"b">>), Rel(<<"b">>)>>,
      <<Rel(<<"b">>), Abs(<<"a", "a">>)>>,
      <<Abs(<<"b">>), Abs(<<"b", "a">>)>>,
      <<Abs(<<"a", "a">>), Abs(<<"b">>)>> }

BatchMappings ==
    {[id |-> i, source |-> pr[1], target |-> pr[2], enabled |-> e] :
        i \in Ids, pr \in BatchPairs, e \in BOOLEAN}

\* the mappings of a batch that is followed round by round: A copies the
\* file x = /b to y = /a/b, B copies y to z = /a/a
MappingA(e) == [id |-> "1", source |-> Abs(<<"b">>), target |-> Rel(<<"b">>), enabled |-> e]
MappingB(e) == [id |-> "2", source |-> Rel(<<"b">>), target |-> Abs(<<"a", "a">>), enabled |-> e]

StepMappings == {MappingA(e) : e \in BOOLEAN} \cup {MappingB(e) : e \in BOOLEAN}

RECURSIVE SeqsUpTo(_, _)
SeqsUpTo(S, n) ==
    IF n = 0 THEN {<<>>}
    ELSE LET shorter == SeqsUpTo(S, n - 1)
         IN shorter \cup {Append(s, x) : s \in shorter, x \in S}

\* the listing orders of the filesystem: an order of all names and its
\* reverse, so that any two entries are listed in both orders
Orders ==
    { <<"a", "b", "src", ".gitignore", "cafe(NFC)", "node_modules", "Z", ".git", "cafe(NFD)">>,
      <<"cafe(NFD)", ".git", "Z", "node_modules", "cafe(NFC)", ".gitignore", "src", "b", "a">> }

\* ------------------------------------------------------------------------
\* state
\* ------------------------------------------------------------------------
VARIABLES
    fs,     \* the filesystem
    pre,    \* the filesystem as it was when the last handler started
    order,  \* the order in which the filesystem lists directory entries
    op,     \* the last step: "init", "env", "one", "again", "all", "read", ...
    arg,    \* the argument of the last handler call
    ret,    \* what the last handler call returned
    run,    \* the sync:executeAll call in progress, or None
    denied, \* the directories the process is not allowed to list
    ui,     \* the state of the renderer (MainLayout): the mappings and the
            \* tabs, the commit in progress with the tabs it still saves, the
            \* last notification, what the last syncAll returned, the clicks
            \* so far, whether syncAll was invoked since the last commit, and
            \* the fs:writeFile results handleSaveFile still waits for
    dialog, \* the sync configuration dialog (SyncConfigDialog): whether it
            \* is mounted, its local list of mappings and the two path
            \* fields of the form, and the wall clock Date.now() reads
    ipc     \* the sync requests between renderer and main process: those
            \* invoked and not yet dispatched, the handlers running, the
            \* order of their filesystem operations and of their returns

vars == <<fs, pre, order, op, arg, ret, run, denied, ui, dialog, ipc>>

\* what the sync handlers of the main process neither read nor write
rest == <<run, denied, ui, dialog, ipc>>

\* the root and the working directory exist
Init ==
    /\ fs = (<<>> :> "dir") @@ (Cwd :> "dir")
    /\ pre = fs
    /\ order \in Orders
    /\ op = "init"
    /\ arg = None
    /\ ret = None
    /\ run = None
    /\ denied = {}
    /\ ui = [syncMappings |-> <<>>, openTabs |-> <<>>, commit |-> "none",
             snapshot |-> <<>>, notification |-> None, lastSync |-> <<>>, clicks |-> 0,
             syncedSinceCommit |-> FALSE, saving |-> <<>>]
    /\ dialog = [open |-> FALSE, localMappings |-> <<>>, adding |-> FALSE,
                 newSource |-> <<>>, newTarget |-> <<>>, now |-> 1]
    /\ ipc = [count |-> 0, invoked |-> {}, running |-> <<>>, log |-> <<>>,
              returned |-> <<>>]

\* other programs create a file or a directory before the sync runs
EnvCreateUpTo(max) ==
    /\ op \in {"init", "env"}
    /\ Cardinality(DOMAIN fs) < max + 2
    /\ \E parent \in DOMAIN fs, n \in Names, kind \in Contents \cup {"dir"} :
          /\ fs[parent] = "dir"
          /\ join(parent, n) \notin DOMAIN fs
          /\ Len(parent) < PathMax
          /\ fs' = Extend(fs, {join(parent, n)}, [q \in {join(parent, n)} |-> kind])
    /\ pre' = fs'
    /\ op' = "env"
    /\ UNCHANGED <<order, arg, ret, rest>>

EnvCreate == EnvCreateUpTo(MaxNodes)

EnvCreateBatch == EnvCreateUpTo(MaxBatchNodes)

\* a handler ran: the filesystem is as it left it and the renderer has its
\* return value
Handled(r) ==
    /\ fs' = r.fs
    /\ ret' = r.ret

\* the renderer invokes sync:executeOne
ExecuteOne ==
    /\ op \in {"init", "env"}
    /\ \E mapping \in Mappings :
          /\ Handled(executeOne(fs, mapping, order))
          /\ arg' = mapping
    /\ pre' = fs
    /\ op' = "one"
    /\ UNCHANGED <<order, rest>>

\* the renderer invokes sync:executeOne a second time with the same mapping
ExecuteOneAgain ==
    /\ op = "one"
    /\ Handled(executeOne(fs, arg, order))
    /\ pre' = fs
    /\ op' = "again"
    /\ UNCHANGED <<order, arg, rest>>

\* the renderer invokes sync:executeAll
ExecuteAll ==
    /\ op \in {"init", "env"}
    /\ \E mappings \in SeqsUpTo(BatchMappings, MaxBatch) :
          /\ Handled(executeAll(fs, mappings, order))
          /\ arg' = mappings
    /\ pre' = fs
    /\ op' = "all"
    /\ UNCHANGED <<order, rest>>

Next == EnvCreate \/ ExecuteOne \/ ExecuteOneAgain

Spec == Init /\ [][Next]_vars

NextBatch == EnvCreateBatch \/ ExecuteOne \/ ExecuteAll

SpecBatch == Init /\ [][NextBatch]_vars

\* ------------------------------------------------------------------------
\* sync:executeAll followed round by round of its for loop
\* ------------------------------------------------------------------------
\* the body of the loop once executeSyncMapping returned r: the result is
\* pushed; the event records the filesystem before and after the mapping
iterated(r, f, mappings, i, results) ==
    [fs |-> r.fs, thrown |-> r.thrown,
     results |-> IF r.thrown # NoErr THEN results
                 ELSE Append(results, WithId(mappings[i], r.result)),
     events |-> <<[index |-> i, before |-> f, after |-> r.fs]>>]

\* variant: the loop goes through the mappings from the last to the first
loopIteration_FromLast(f, mappings, i, results, ord) ==
    IF ~mappings[Len(mappings) + 1 - i].enabled
    THEN [fs |-> f, thrown |-> NoErr, results |-> results, events |-> <<>>]
    ELSE iterated(executeSyncMapping(f, mappings[Len(mappings) + 1 - i], ord),
                  f, mappings, Len(mappings) + 1 - i, results)

\* one round of the for loop of sync:executeAll, for mappings[i]
loopIteration(f, mappings, i, results, ord) ==
    IF ~mappings[i].enabled
    THEN [fs |-> f, thrown |-> NoErr, results |-> results, events |-> <<>>]
    ELSE iterated(executeSyncMapping(f, mappings[i], ord), f, mappings, i, results)

EnvCreateSteps == EnvCreateUpTo(MaxStepNodes)

\* the renderer invokes sync:executeAll and the handler starts
BatchStart ==
    /\ op \in {"init", "env"}
    /\ \E mappings \in SeqsUpTo(StepMappings, MaxBatch) : arg' = mappings
    /\ run' = [i |-> 1, results |-> <<>>, log |-> <<>>]
    /\ pre' = fs
    /\ ret' = None
    /\ op' = "loop"
    /\ UNCHANGED <<fs, order, denied, ui, dialog, ipc>>

\* the round it of the loop is over: the loop goes to the next mapping, or
\* the handler ends with the exception that reached it
Iterated(it) ==
    /\ fs' = it.fs
    /\ IF it.thrown # NoErr
       THEN /\ ret' = Rejected(it.thrown)
            /\ run' = None
            /\ op' = "all"
       ELSE /\ ret' = ret
            /\ run' = [i |-> run.i + 1, results |-> it.results,
                       log |-> run.log \o it.events]
            /\ op' = op

\* variant: the mapping after mappings[i] is started before mappings[i]
BatchIterate_NextFirst ==
    /\ op = "loop"
    /\ run.i <= Len(arg)
    /\ IF run.i < Len(arg) /\ arg[run.i].enabled /\ arg[run.i + 1].enabled
       THEN \E it \in {loopIteration(fs, arg, run.i + 1, run.results, order)} :
               /\ fs' = loopIteration(it.fs, arg, run.i, it.results, order).fs
               /\ run' = [i |-> run.i + 2,
                          results |-> loopIteration(it.fs, arg, run.i, it.results, order).results,
                          log |-> run.log \o it.events
                                     \o loopIteration(it.fs, arg, run.i, it.results, order).events]
               /\ UNCHANGED <<ret, op>>
       ELSE Iterated(loopIteration(fs, arg, run.i, run.results, order))
    /\ UNCHANGED <<pre, order, arg, denied, ui, dialog, ipc>>

\* one round of the loop: executeSyncMapping is synchronous, nothing else
\* runs in the main process until it returns
BatchIterate ==
    /\ op = "loop"
    /\ run.i <= Len(arg)
    /\ Iterated(loopIteration(fs, arg, run.i, run.results, order))
    /\ UNCHANGED <<pre, order, arg, denied, ui, dialog, ipc>>

\* the loop is over: the handler returns the batch result
BatchReturn ==
    /\ op = "loop"
    /\ run.i > Len(arg)
    /\ ret' = batchReturn(Return(fs, run.results), TRUE).ret
    /\ run' = None
    /\ op' = "all"
    /\ UNCHANGED <<fs, pre, order, arg, denied, ui, dialog, ipc>>

NextSteps == EnvCreateSteps \/ BatchStart \/ BatchIterate \/ BatchReturn

SpecSteps == Init /\ [][NextSteps]_vars

\* ------------------------------------------------------------------------
\* fs:readTree
\* ------------------------------------------------------------------------
\* the entries of the trees read for what they leave out: a name with a
\* leading dot, .gitignore, node_modules as a file and as a directory, and
\* an ordinary name
FilterEntries ==
    { <<".git", "dir">>, <<".gitignore", "x">>,
      <<"node_modules", "x">>, <<"node_modules", "dir">>, <<"src", "dir">> }

\* the entries of the trees read for their order: names that differ in
\* case, and two files whose names are canonically equivalent
SortEntries ==
    { <<"src", "x">>, <<"src", "dir">>, <<"Z", "x">>, <<"Z", "dir">>,
      <<"cafe(NFC)", "x">>, <<"cafe(NFD)", "x">> }

\* other programs create a file or a directory below the working directory
TreeCreateOf(entries, max) ==
    /\ op \in {"init", "tree"}
    /\ Cardinality(DOMAIN fs) < max + 2
    /\ \E parent \in DOMAIN fs, e \in entries :
          /\ IsPrefix(Cwd, parent)
          /\ fs[parent] = "dir"
          /\ join(parent, e[1]) \notin DOMAIN fs
          /\ Len(parent) < PathMax
          /\ fs' = Extend(fs, {join(parent, e[1])}, [q \in {join(parent, e[1])} |-> e[2]])
    /\ pre' = fs'
    /\ op' = "tree"
    /\ UNCHANGED <<order, arg, ret, rest>>

TreeCreate == TreeCreateOf(FilterEntries, MaxTreeNodes)

SortCreate == TreeCreateOf(SortEntries, MaxSortNodes)

\* the permission to list a directory is taken from the process
Deny ==
    /\ op \in {"init", "tree"}
    /\ Cardinality(denied) < MaxDenied
    /\ \E p \in DOMAIN fs :
          /\ IsPrefix(Cwd, p)
          /\ fs[p] = "dir"
          /\ p \notin denied
          /\ denied' = denied \cup {p}
    /\ op' = "tree"
    /\ UNCHANGED <<fs, pre, order, arg, ret, run, ui, dialog, ipc>>

\* the renderer invokes fs:readTree with the path of a directory, of a file
\* or of nothing
ReadTree ==
    /\ op \in {"init", "tree"}
    /\ \E dirPath \in {Cwd, join(Cwd, "src"), join(Cwd, ".gitignore")} :
          /\ arg' = [dirPath |-> dirPath, depth |-> ReadTreeDepth]
          /\ ret' = readTree(fs, dirPath, order, denied)
    /\ pre' = fs
    /\ op' = "read"
    /\ UNCHANGED <<fs, order, rest>>

\* readDirectoryTree is applied to the working directory with a small depth
ReadDirectoryTree ==
    /\ op \in {"init", "tree"}
    /\ \E depth \in 0..MaxDepth :
          /\ arg' = [dirPath |-> Cwd, depth |-> depth]
          /\ ret' = readDirectoryTree(fs, Cwd, depth, order, denied)
    /\ pre' = fs
    /\ op' = "read"
    /\ UNCHANGED <<fs, order, rest>>

NextTree == TreeCreate \/ Deny \/ ReadTree \/ ReadDirectoryTree

SpecTree == Init /\ [][NextTree]_vars

NextOrder == SortCreate \/ ReadTree

SpecOrder == Init /\ [][NextOrder]_vars

\* ------------------------------------------------------------------------
\* MainLayout.tsx (renderer)
\* ------------------------------------------------------------------------
\* the file the user opens in the editor
TabPaths == {join(Cwd, "b")}

\* the mapping lists the user saves in the sync configuration dialog
SavedLists ==
    { <<MappingA(TRUE)>>, <<MappingA(FALSE)>>, <<MappingA(TRUE), MappingB(TRUE)>> }

\* handleOpenFile(node) for a file node: the file is read and shown in a
\* new tab unless it has a tab already; with each tab goes the content the
\* editor last read from or wrote to the disk for its path (disk), which
\* the program does not keep
tabOpened(tabs, path, result) ==
    IF \E k \in 1..Len(tabs) : tabs[k].path = path THEN tabs
    ELSE IF result.success
         THEN Append(tabs, [path |-> path, content |-> result.content, modified |-> FALSE,
                            disk |-> result.content])
    ELSE tabs

\* the tabs once fs:writeFile(path, content) has returned result
tabsWritten(tabs, path, content, result) ==
    [k \in 1..Len(tabs) |->
        IF tabs[k].path = path /\ result.success THEN [tabs[k] EXCEPT !.disk = content]
        ELSE tabs[k]]

\* the tabs with those of path marked unmodified
tabsSaved(tabs, path) ==
    [k \in 1..Len(tabs) |->
        IF tabs[k].path = path THEN [tabs[k] EXCEPT !.modified = FALSE] ELSE tabs[k]]

\* handleSaveFile(path) up to its await: fs:writeFile is invoked with the
\* content of the tab and the main process writes the file
SaveWritten(k, w) ==
    /\ fs' = w.fs
    /\ ui' = [ui EXCEPT
                !.saving = Append(@, [path |-> ui.openTabs[k].path, result |-> w.ret]),
                !.openTabs = tabsWritten(@, ui.openTabs[k].path, ui.openTabs[k].content,
                                         w.ret)]

SaveFile ==
    /\ ui.saving = <<>>
    /\ \E k \in 1..Len(ui.openTabs) :
          SaveWritten(k, writeFile(fs, ui.openTabs[k].path, ui.openTabs[k].content))
    /\ op' = "save"
    /\ UNCHANGED <<pre, order, arg, ret, run, denied, dialog, ipc>>

\* handleSaveFile after its await: on success the tab is marked unmodified
SaveResolve ==
    /\ ui.saving # <<>>
    /\ ui' = [ui EXCEPT
                !.saving = Tail(@),
                !.openTabs = IF Head(ui.saving).result.success
                             THEN tabsSaved(@, Head(ui.saving).path) ELSE @,
                !.notification = IF Head(ui.saving).result.success
                                 THEN "file saved" ELSE "save failed"]
    /\ op' = "saved"
    /\ UNCHANGED <<fs, pre, order, arg, ret, run, denied, dialog, ipc>>

OpenFile ==
    /\ \E path \in TabPaths :
          /\ ui' = [ui EXCEPT
                      !.openTabs = tabOpened(ui.openTabs, path, readFile(fs, path)),
                      !.notification =
                          IF (\A k \in 1..Len(ui.openTabs) : ui.openTabs[k].path # path)
                             /\ ~readFile(fs, path).success
                          THEN "open failed" ELSE ui.notification]
          /\ ui' # ui
    /\ op' = "open"
    /\ UNCHANGED <<fs, pre, order, arg, ret, run, denied, dialog, ipc>>

\* handleContentChange(path, content)
ContentChange ==
    /\ \E k \in 1..Len(ui.openTabs), content \in Contents :
          /\ ui.openTabs[k].content # content
          /\ ui' = [ui EXCEPT !.openTabs[k].content = content,
                              !.openTabs[k].modified = TRUE]
    /\ op' = "edit"
    /\ UNCHANGED <<fs, pre, order, arg, ret, run, denied, dialog, ipc>>

\* handleSaveSyncMappings(mappings)
SaveSyncMappings ==
    /\ \E mappings \in SavedLists :
          /\ mappings # ui.syncMappings
          /\ ui' = [ui EXCEPT !.syncMappings = mappings,
                              !.notification = "sync config saved"]
    /\ op' = "config"
    /\ UNCHANGED <<fs, pre, order, arg, ret, run, denied, dialog, ipc>>

Digit == <<"0", "1", "2", "3", "4", "5", "6", "7", "8", "9">>

\* Number.prototype.toString of a non-negative integer, in decimal
RECURSIVE toString(_)
toString(n) ==
    IF n < 10 THEN Digit[n + 1] ELSE toString(n \div 10) \o Digit[(n % 10) + 1]

\* variant: the report follows the success flag of the batch alone
syncReport_BatchFlag(result) ==
    IF "success" \in DOMAIN result /\ result.success THEN "sync done" ELSE "sync failed"

\* what handleSync tells the user about the value syncAll returned
syncReport(result) ==
    IF "success" \in DOMAIN result /\ result.success /\ "results" \in DOMAIN result
    THEN IF CountFailed(result.results) = 0 THEN "sync done"
         ELSE "sync partly failed: " \o toString(CountFailed(result.results)) \o " items"
    ELSE "sync failed"

\* handleSync on a list with mappings: syncAll is invoked and what it
\* returned is reported
syncAllReturned(r) ==
    /\ fs' = r.fs
    /\ ui' = [ui EXCEPT !.notification = IF "rejected" \in DOMAIN r.ret THEN ui.notification
                                          ELSE syncReport(r.ret),
                        !.lastSync = <<r.ret>>,
                        !.clicks = ui.clicks + 1,
                        !.syncedSinceCommit = TRUE]

\* the user clicks the sync button: handleSync
ClickSync ==
    /\ ui.clicks < MaxClicks
    /\ IF Len(ui.syncMappings) = 0
       THEN /\ ui' = [ui EXCEPT !.notification = "no sync mappings",
                                !.clicks = ui.clicks + 1]
            /\ fs' = fs
       ELSE syncAllReturned(executeAll(fs, ui.syncMappings, order))
    /\ op' = "sync"
    /\ UNCHANGED <<pre, order, arg, ret, run, denied, dialog, ipc>>

\* the user confirms the commit dialog: handleCommit starts with the tabs
\* as they are now
ClickCommit ==
    /\ ui.clicks < MaxClicks
    /\ ui.commit \in {"none", "ok", "failed"}
    /\ ui' = [ui EXCEPT !.commit = "saving", !.snapshot = ui.openTabs,
                        !.clicks = ui.clicks + 1]
    /\ op' = "commit"
    /\ UNCHANGED <<fs, pre, order, arg, ret, run, denied, dialog, ipc>>

\* handleCommit saves the next tab of its snapshot if it is modified; after
\* the last one every tab is marked unmodified and git:commit is invoked
CommitSave ==
    /\ ui.commit = "saving"
    /\ IF ui.snapshot = <<>>
       THEN /\ ui' = [ui EXCEPT
                        !.commit = "committing",
                        !.openTabs = [k \in 1..Len(ui.openTabs) |->
                                         [ui.openTabs[k] EXCEPT !.modified = FALSE]]]
            /\ fs' = fs
       ELSE /\ ui' = [ui EXCEPT
                        !.snapshot = Tail(ui.snapshot),
                        !.openTabs =
                            IF Head(ui.snapshot).modified
                            THEN tabsWritten(@, Head(ui.snapshot).path,
                                             Head(ui.snapshot).content,
                                             writeFile(fs, Head(ui.snapshot).path,
                                                       Head(ui.snapshot).content).ret)
                            ELSE @]
            /\ fs' = IF Head(ui.snapshot).modified
                      THEN writeFile(fs, Head(ui.snapshot).path, Head(ui.snapshot).content).fs
                      ELSE fs
    /\ op' = "commit"
    /\ UNCHANGED <<pre, order, arg, ret, run, denied, dialog, ipc>>

\* git:commit returns: on success the commit is notified and pushed if a
\* remote exists, on failure the error is notified; nothing else follows
CommitResolve ==
    /\ ui.commit = "committing"
    /\ \E outcome \in {"committed", "pushed", "push failed", "commit failed"} :
          ui' = [ui EXCEPT !.commit = IF outcome = "commit failed" THEN "failed" ELSE "ok",
                           !.notification = outcome,
                           !.syncedSinceCommit = FALSE]
    /\ op' = "commit"
    /\ UNCHANGED <<fs, pre, order, arg, ret, run, denied, dialog, ipc>>

NextUI ==
    \/ EnvCreateBatch
    \/ OpenFile
    \/ ContentChange
    \/ SaveSyncMappings
    \/ ClickSync
    \/ ClickCommit
    \/ CommitSave
    \/ CommitResolve

NextEdit ==
    \/ EnvCreateBatch
    \/ OpenFile
    \/ ContentChange
    \/ SaveFile
    \/ SaveResolve
    \/ ClickCommit
    \/ CommitSave
    \/ CommitResolve

\* the editor alone: tabs are opened, edited, saved and committed
SpecEdit == Init /\ [][NextEdit]_vars

\* what handleCommit has begun it finishes: the invoked handlers return
SpecUI ==
    Init /\ [][NextUI]_vars /\ WF_vars(CommitSave) /\ WF_vars(CommitResolve)

\* well-formedness of the filesystem: the root is a directory and every
\* entry lies in a directory
WellFormed(f) ==
    /\ <<>> \in DOMAIN f /\ f[<<>>] = "dir"
    /\ \A p \in DOMAIN f : p # <<>> => dirname(p) \in DOMAIN f /\ f[dirname(p)] = "dir"

TypeOK == WellFormed(fs) /\ WellFormed(pre)

\* ------------------------------------------------------------------------
\* vocabulary of the properties
\* ------------------------------------------------------------------------
IsFile(f, p) == p \in DOMAIN f /\ f[p] # "dir"
IsDir(f, p) == p \in DOMAIN f /\ f[p] = "dir"

\* the last step was a call of sync:executeOne
CalledOne == op \in {"one", "again"}
Source == resolve(arg.source)
Target == resolve(arg.target)

\* the path at the same relative place under to as p has under from
Rebase(p, from, to) == to \o SubSeq(p, Len(from) + 1, Len(p))

ProperAncestor(q, p) == IsPrefix(q, p) /\ q # p

Contains(msg, part) == \E i \in 1..Len(msg) : msg[i] = part

EnabledOf(mappings) == SelectSeq(mappings, LAMBDA m : m.enabled)

IdsOf(s) == [i \in 1..Len(s) |-> s[i].id]

\* the filesystem after the first k mappings of ms ran one by one through
\* sync:executeOne, starting from f
RECURSIVE FsAfter(_, _, _)
FsAfter(f, ms, k) ==
    IF k = 0 THEN f ELSE executeOne(FsAfter(f, ms, k - 1), ms[k], order).fs

\* ------------------------------------------------------------------------
\* C1: the ids of the results of sync:executeAll, in order, are the ids of
\* the enabled input mappings, in input order; a disabled mapping gives no
\* result and an enabled one exactly one.
\* ------------------------------------------------------------------------
C1_ResultIdsAreEnabledIds ==
    op = "all" =>
        /\ "results" \in DOMAIN ret
        /\ IdsOf(ret.results) = IdsOf(EnabledOf(arg))

C1_Witness ==
    /\ op = "all"
    /\ Len(arg) = 2
    /\ ~arg[1].enabled /\ arg[2].enabled
    /\ Len(ret.results) = 1
    /\ ret.results[1].id = arg[2].id
    /\ ret.results[1].success

\* ------------------------------------------------------------------------
\* C2: in sync:executeAll a failed mapping does not stop the batch: every
\* enabled mapping, also one after a failed mapping, runs on the filesystem
\* its predecessors left, with the effect and the result sync:executeOne
\* has there.
\* ------------------------------------------------------------------------
C2_FailureDoesNotStopBatch ==
    op = "all" =>
        LET en == EnabledOf(arg)
        IN /\ "results" \in DOMAIN ret
           /\ Len(ret.results) = Len(en)
           /\ fs = FsAfter(pre, en, Len(en))
           /\ \A k \in 1..Len(en) :
                 ret.results[k] = executeOne(FsAfter(pre, en, k - 1), en[k], order).ret

C2_Witness ==
    /\ op = "all"
    /\ Len(ret.results) = 2
    /\ ~ret.results[1].success
    /\ ret.results[2].success
    /\ fs # pre

\* ------------------------------------------------------------------------
\* C3: the success flag of the value sync:executeAll returns is true for
\* every batch, also when mappings fail or none is enabled.
\* ------------------------------------------------------------------------
C3_BatchFlagTrue ==
    op = "all" => "success" \in DOMAIN ret /\ ret.success = TRUE

C3_Witness ==
    /\ op = "all"
    /\ Len(ret.results) = 2
    /\ \A k \in 1..2 : ~ret.results[k].success
    /\ ret.success

\* ------------------------------------------------------------------------
\* C4: sync:executeOne on a mapping whose resolved source does not exist
\* returns success = false with an error that contains the resolved source
\* path, and the filesystem is exactly as before.
\* ------------------------------------------------------------------------
C4_MissingSourceNoWrite ==
    (CalledOne /\ ~existsSync(pre, Source)) =>
        /\ ret.success = FALSE
        /\ Contains(ret.error, Source)
        /\ fs = pre

C4_Witness ==
    /\ op = "one"
    /\ ~existsSync(pre, Source)
    /\ ~existsSync(pre, dirname(Target))
    /\ ~arg.source.abs
    /\ ret.success = FALSE
    /\ fs = pre

\* ------------------------------------------------------------------------
\* C5 as stated: when the source is a file and the target is an existing
\* directory, sync:executeOne succeeds, the file is at target/basename with
\* the content of the source, and the target is still a directory.
\* ------------------------------------------------------------------------
C5_Original ==
    (CalledOne /\ IsFile(pre, Source) /\ IsDir(pre, Target)) =>
        /\ ret.success
        /\ IsDir(fs, Target)
        /\ IsFile(fs, join(Target, basename(Source)))
        /\ fs[join(Target, basename(Source))] = pre[Source]

\* C5 amended: when the source is a file and the target is an existing
\* directory, the destination is target/basename and never the target: the
\* target stays a directory; the call succeeds unless target/basename is an
\* existing directory or is longer than the filesystem accepts; on success
\* the file is at target/basename with the content of the source, and on
\* failure nothing has changed.
C5_FileIntoDirectory ==
    (CalledOne /\ IsFile(pre, Source) /\ IsDir(pre, Target)) =>
        LET dest == join(Target, basename(Source))
        IN /\ IsDir(fs, Target)
           /\ ret.success <=> (~IsDir(pre, dest) /\ Len(dest) <= PathMax)
           /\ ret.success => /\ IsFile(fs, dest)
                             /\ fs[dest] = pre[Source]
                             /\ \A p \in DOMAIN fs : p # dest => p \in DOMAIN pre /\ fs[p] = pre[p]
           /\ ~ret.success => fs = pre

C5_Witness ==
    /\ op = "one"
    /\ IsFile(pre, Source) /\ IsDir(pre, Target)
    /\ ~existsSync(pre, join(Target, basename(Source)))
    /\ ret.success
    /\ IsDir(fs, Target)
    /\ fs[join(Target, basename(Source))] = pre[Source]

\* ------------------------------------------------------------------------
\* C6: when the source is a file and the target is not an existing
\* directory, after a successful sync:executeOne the parent directory of the
\* target exists and the target is a file with exactly the content of the
\* source, whether or not a target file existed before.
\* ------------------------------------------------------------------------
C6_FileToFile ==
    (CalledOne /\ IsFile(pre, Source) /\ ~IsDir(pre, Target) /\ ret.success) =>
        /\ IsDir(fs, dirname(Target))
        /\ IsFile(fs, Target)
        /\ fs[Target] = pre[Source]

\* the parent of the target was missing
C6_Witness ==
    /\ op = "one"
    /\ IsFile(pre, Source)
    /\ ~existsSync(pre, dirname(Target))
    /\ ret.success
    /\ IsDir(fs, dirname(Target))
    /\ fs[Target] = pre[Source]

\* ------------------------------------------------------------------------
\* C7: when the source is a directory, after a successful sync:executeOne
\* every file and every subdirectory (also an empty one) below the source is
\* at the same relative path below the target, a file with the same content.
\* ------------------------------------------------------------------------
C7_DirectoryMirrored ==
    (CalledOne /\ IsDir(pre, Source) /\ ret.success) =>
        \A p \in DOMAIN fs :
            ProperAncestor(Source, p) =>
                /\ Rebase(p, Source, Target) \in DOMAIN fs
                /\ fs[Rebase(p, Source, Target)] = fs[p]

\* ------------------------------------------------------------------------
\* C8: the directory copy is additive: an entry under the target that has
\* no counterpart at the same relative path under the source is still there
\* afterwards, unchanged, and nothing that existed is deleted.
\* ------------------------------------------------------------------------
C8_Additive ==
    (CalledOne /\ IsDir(pre, Source)) =>
        /\ \A p \in DOMAIN pre : p \in DOMAIN fs
        /\ \A p \in DOMAIN pre :
              (IsPrefix(Target, p) /\ Rebase(p, Target, Source) \notin DOMAIN pre)
                  => fs[p] = pre[p]

ResultShaped(r) ==
    /\ DOMAIN r \subseteq {"id", "success", "error", "detail"}
    /\ {"id", "success"} \subseteq DOMAIN r
    /\ r.success \in BOOLEAN
    /\ ~r.success => "error" \in DOMAIN r

\* the try block threw for mapping m on filesystem f, and r is the failure
\* result carrying the stringified exception
CaughtAs(f, m, r) ==
    LET t == executeSyncMappingTry(f, m, order)
    IN t.thrown # NoErr => (r.success = FALSE /\ r.error = ErrorString(t.thrown))

C10_NoErrorEscapes ==
    /\ CalledOne =>
          /\ ResultShaped(ret)
          /\ ret.id = arg.id
          /\ CaughtAs(pre, arg, ret)
    /\ op = "all" =>
          /\ DOMAIN ret = {"success", "results", "executed", "failed"}
          /\ \A k \in 1..Len(ret.results) :
                /\ ResultShaped(ret.results[k])
                /\ CaughtAs(FsAfter(pre, EnabledOf(arg), k - 1), EnabledOf(arg)[k],
                            ret.results[k])

\* a batch in which a copy raised an exception and the next mapping ran
C10_Witness ==
    /\ op = "all"
    /\ Len(ret.results) = 2
    /\ executeSyncMappingTry(pre, EnabledOf(arg)[1], order).thrown # NoErr
    /\ ret.results[1].error = ErrorString("ENOTDIR")
    /\ ret.results[2].success

\* ------------------------------------------------------------------------
\* C11: sync:executeAll is strictly sequential: at every point of a batch
\* the mappings that touched the filesystem did so in input order, each one
\* completely (its whole effect) before the next began, the next one on
\* exactly the filesystem its predecessor left, and every enabled mapping
\* before the current one has completed; the batch as a whole has the
\* effect and the result of the mappings run one after the other.
\* ------------------------------------------------------------------------
EnabledIndexes(mappings, n) ==
    {k \in 1..n : k <= Len(mappings) /\ mappings[k].enabled}

C11_StrictlySequential ==
    /\ op = "loop" =>
          /\ {run.log[k].index : k \in 1..Len(run.log)} = EnabledIndexes(arg, run.i - 1)
          /\ \A k \in 1..Len(run.log) :
                run.log[k].after
                    = executeSyncMapping(run.log[k].before, arg[run.log[k].index], order).fs
          /\ \A k \in 1..(Len(run.log) - 1) :
                /\ run.log[k].index < run.log[k + 1].index
                /\ run.log[k + 1].before = run.log[k].after
          /\ run.log # <<>> =>
                /\ run.log[1].before = pre
                /\ run.log[Len(run.log)].after = fs
          /\ run.log = <<>> => fs = pre
    /\ (op = "all" /\ run = None) =>
          /\ fs = executeAll(pre, arg, order).fs
          /\ ret = executeAll(pre, arg, order).ret

\* both mappings of a batch ran, the second on what the first had written
C11_Witness ==
    /\ op = "loop"
    /\ Len(run.log) = 2
    /\ run.log[1].after # run.log[1].before
    /\ run.log[2].after # run.log[2].before
    /\ run.results[1].success /\ run.results[2].success

\* ------------------------------------------------------------------------
\* vocabulary of the properties of fs:readTree
\* ------------------------------------------------------------------------
AllNames == Names \cup TreeNames

\* the last step read a directory tree
CalledRead == op = "read"

\* the listings a result is made of: the sequence returned for dir, read
\* with the depth given, and the children sequence of every directory node
RECURSIVE Listings(_, _, _)
Listings(nodes, dir, depth) ==
    {[dir |-> dir, depth |-> depth, nodes |-> nodes]}
        \cup UNION {Listings(nodes[k].children, nodes[k].path, depth - 1) :
                       k \in {j \in 1..Len(nodes) : nodes[j].isDirectory}}

Listed == Listings(ret, arg.dirPath, arg.depth)

\* the names the tree leaves out
Hidden(n) == n = ".git" \/ n = "node_modules"

\* the process can list p
Listable(f, p) == IsDir(f, p) /\ p \notin denied

\* the entries of dir on disk that the tree shows
Shown(f, dir) == {n \in AllNames : join(dir, n) \in DOMAIN f /\ ~Hidden(n)}

\* ------------------------------------------------------------------------
\* C12: at every level of the tree fs:readTree returns, no node has a name
\* with a leading dot except .gitignore and none is named node_modules,
\* whether file or directory; every other entry of a directory that is
\* listed within the depth bound has exactly one node, with its path and
\* its kind.
\* ------------------------------------------------------------------------
C12_Filtered ==
    CalledRead =>
        \A l \in Listed :
            /\ \A k \in 1..Len(l.nodes) : ~Hidden(l.nodes[k].name)
            /\ (l.depth >= 1 /\ Listable(pre, l.dir)) =>
                  /\ Len(l.nodes) = Cardinality(Shown(pre, l.dir))
                  /\ {<<l.nodes[k].name, l.nodes[k].path, l.nodes[k].isDirectory>> :
                         k \in 1..Len(l.nodes)}
                       = {<<n, join(l.dir, n), pre[join(l.dir, n)] = "dir">> :
                            n \in Shown(pre, l.dir)}

\* the directory with .git, .gitignore, node_modules and src
C12_Witness ==
    /\ CalledRead
    /\ arg.dirPath = Cwd
    /\ \A n \in {".git", ".gitignore", "node_modules", "src"} : join(Cwd, n) \in DOMAIN pre
    /\ Len(ret) = 2
    /\ ret[1].name = "src" /\ ret[1].isDirectory
    /\ ret[2].name = ".gitignore" /\ ~ret[2].isDirectory

\* ------------------------------------------------------------------------
\* C13 as stated: in every sequence of the tree the directory nodes come
\* before the file nodes, nodes of one kind are in ascending order of their
\* names under localeCompare, and the result is the same whatever the order
\* in which the filesystem lists the entries.
\* ------------------------------------------------------------------------
Ordered(nodes) ==
    \A j, k \in 1..Len(nodes) :
        j < k =>
            /\ nodes[k].isDirectory => nodes[j].isDirectory
            /\ nodes[j].isDirectory = nodes[k].isDirectory
                  => collation(nodes[j].name) <= collation(nodes[k].name)

C13_Original ==
    CalledRead =>
        /\ \A l \in Listed : Ordered(l.nodes)
        /\ \A o \in Orders : ret = readDirectoryTree(pre, arg.dirPath, arg.depth, o, denied)

\* no two entries of a directory of f have names that compare equal
NoEqualNames(f) ==
    \A p \in DOMAIN f, q \in DOMAIN f :
        (p # q /\ p # <<>> /\ q # <<>> /\ dirname(p) = dirname(q))
            => collation(basename(p)) # collation(basename(q))

\* C13 amended: the directory nodes come before the file nodes and nodes of
\* one kind are in ascending order of their names under localeCompare; the
\* result is the same whatever the listing order when no two entries of a
\* directory have names that compare equal (entries whose names compare
\* equal stay in the order of the listing).
C13_Ordered ==
    CalledRead =>
        /\ \A l \in Listed : Ordered(l.nodes)
        /\ NoEqualNames(pre) =>
              \A o \in Orders : ret = readDirectoryTree(pre, arg.dirPath, arg.depth, o, denied)

\* the directory Z comes before the files, which are in the order of their
\* names; the filesystem listed src first
C13_Witness ==
    /\ CalledRead
    /\ arg.dirPath = Cwd
    /\ Len(ret) = 3
    /\ ret[1].isDirectory /\ ret[1].name = "Z"
    /\ ~ret[2].isDirectory /\ ret[2].name = "cafe(NFC)"
    /\ ~ret[3].isDirectory /\ ret[3].name = "src"
    /\ order[1] = "a"

\* ------------------------------------------------------------------------
\* C14: readDirectoryTree with depth 0 gives the empty sequence; with depth
\* d >= 1 no node lies more than d levels below the directory read, every
\* entry at the levels 1..d that is not left out and is reached through
\* shown directories that can be listed has a node, and a directory node at
\* level d has the empty children sequence whatever it holds on disk.
\* ------------------------------------------------------------------------
NodePaths == UNION {{l.nodes[k].path : k \in 1..Len(l.nodes)} : l \in Listed}

\* p lies below the directory read and is reached through entries that are
\* shown and directories that can be listed
Reached(p) ==
    /\ ProperAncestor(arg.dirPath, p)
    /\ \A i \in (Len(arg.dirPath) + 1)..Len(p) :
          /\ ~Hidden(p[i])
          /\ Listable(pre, SubSeq(p, 1, i - 1))

C14_DepthBound ==
    CalledRead =>
        /\ arg.depth = 0 => ret = <<>>
        /\ \A p \in NodePaths :
              /\ p \in DOMAIN pre
              /\ ProperAncestor(arg.dirPath, p)
              /\ Len(p) - Len(arg.dirPath) <= arg.depth
        /\ \A p \in DOMAIN pre :
              (Reached(p) /\ Len(p) - Len(arg.dirPath) <= arg.depth) => p \in NodePaths
        /\ \A l \in Listed :
              \A k \in 1..Len(l.nodes) :
                  (l.nodes[k].isDirectory /\ Len(l.nodes[k].path) - Len(arg.dirPath) = arg.depth)
                      => l.nodes[k].children = <<>>

\* a directory at level 2 that holds an entry on disk, read with depth 2
C14_Witness ==
    /\ CalledRead
    /\ arg.depth = 2
    /\ \E p \in NodePaths :
          /\ Len(p) = Len(arg.dirPath) + 2
          /\ IsDir(pre, p)
          /\ \E q \in DOMAIN pre : dirname(q) = p /\ Reached(q)

\* ------------------------------------------------------------------------
\* C15: when a directory cannot be listed fs:readTree raises nothing: the
\* result is the tree that would be returned if every directory could be
\* listed, with the children of the directories that cannot be listed
\* emptied; such a directory keeps its node, its siblings keep theirs and
\* their subtrees, and a directory read that cannot be listed itself, is
\* missing or is a file gives the empty sequence.
\* ------------------------------------------------------------------------
RECURSIVE Emptied(_)
Emptied(nodes) ==
    [k \in 1..Len(nodes) |->
        IF ~nodes[k].isDirectory THEN nodes[k]
        ELSE IF nodes[k].path \in denied THEN [nodes[k] EXCEPT !.children = <<>>]
        ELSE [nodes[k] EXCEPT !.children = Emptied(nodes[k].children)]]

C15_ListingFailureContained ==
    CalledRead =>
        /\ ret \in Seq(UNION {{l.nodes[k] : k \in 1..Len(l.nodes)} : l \in Listed})
        /\ ~Listable(pre, arg.dirPath) => ret = <<>>
        /\ Listable(pre, arg.dirPath) =>
              ret = Emptied(readDirectoryTree(pre, arg.dirPath, arg.depth, order, {}))

\* a directory that holds an entry that would be shown cannot be listed: it
\* has its node, without children, and the entry beside it has its node
C15_Witness ==
    /\ CalledRead
    /\ \E l \in Listed :
          \E k, j \in 1..Len(l.nodes) :
              /\ k # j
              /\ l.nodes[k].path \in denied
              /\ l.nodes[k].children = <<>>
              /\ \E q \in DOMAIN pre : dirname(q) = l.nodes[k].path /\ ~Hidden(basename(q))

\* ------------------------------------------------------------------------
\* C16: the summary of a batch: executed is the number of results, which is
\* the number of enabled input mappings; failed is the number of results
\* with success = false, so 0 <= failed <= executed; the results returned
\* are the ones the loop pushed and the filesystem is as the loop left it.
\* ------------------------------------------------------------------------
C16_BatchSummary ==
    op = "all" =>
        /\ ret.executed = Len(ret.results)
        /\ ret.executed = Len(EnabledOf(arg))
        /\ ret.failed = Cardinality({k \in 1..Len(ret.results) : ~ret.results[k].success})
        /\ 0 <= ret.failed /\ ret.failed <= ret.executed
        /\ ret.results = executeLoop(pre, arg, 1, <<>>, order).result
        /\ fs = executeLoop(pre, arg, 1, <<>>, order).fs

\* two mappings ran: the first failed, the second succeeded
C16_Witness ==
    /\ op = "all"
    /\ Len(arg) = 2
    /\ ret.executed = 2
    /\ ret.failed = 1
    /\ ~ret.results[1].success
    /\ ret.results[2].success

\* ------------------------------------------------------------------------
\* C17 as stated: when the source is an existing directory, sync:executeOne
\* returns success with a detail string and the target is a directory
\* afterwards, created with its missing ancestors if it did not exist,
\* whatever was at the target path.
\* ------------------------------------------------------------------------
C17_Original ==
    (CalledOne /\ IsDir(pre, Source)) =>
        /\ ret.success
        /\ "detail" \in DOMAIN ret
        /\ \A q \in Ancestors(Target) : IsDir(fs, q)

\* mkdirSync(p, {recursive: true}) can make p: no ancestor is a regular
\* file and the path is not too long
CanMake(f, p) ==
    /\ Len(p) <= PathMax
    /\ \A q \in Ancestors(p) : ~IsFile(f, q)

\* the deepest entry below p lies n levels below it
Height(f, p, n) ==
    /\ \A q \in DOMAIN f : IsPrefix(p, q) => Len(q) - Len(p) <= n
    /\ \E q \in DOMAIN f : IsPrefix(p, q) /\ Len(q) - Len(p) = n

\* C17 amended: when the source is an existing directory, the target is the
\* directory sync:executeOne populates, never target/basename: a missing
\* target is created with its missing ancestors unless an ancestor is a
\* regular file or the path is too long, and then the call fails with
\* nothing changed; an existing directory stays one; a regular file at the
\* target stays a regular file, and the call then fails if the source has
\* entries and reports success with nothing copied if it has none.  A
\* success has a detail string that names both paths.  The call succeeds
\* when the target is missing and can be created, lies outside the source
\* and the source tree fits below it.
C17_DirectoryTarget ==
    (CalledOne /\ IsDir(pre, Source)) =>
        /\ ~existsSync(pre, join(Target, basename(Source)))
              => (~existsSync(fs, join(Target, basename(Source)))
                    \/ existsSync(pre, join(Source, basename(Source)))
                    \/ IsPrefix(Source, Target))
        /\ (~existsSync(pre, Target) /\ CanMake(pre, Target))
              => \A q \in Ancestors(Target) : IsDir(fs, q)
        /\ (~existsSync(pre, Target) /\ ~CanMake(pre, Target))
              => (~ret.success /\ fs = pre)
        /\ IsDir(pre, Target) => IsDir(fs, Target)
        /\ IsFile(pre, Target) =>
              /\ IsFile(fs, Target)
              /\ fs = pre
              /\ ret.success <=> (\A n \in Names : ~existsSync(pre, join(Source, n)))
        /\ ret.success =>
              /\ "detail" \in DOMAIN ret
              /\ Contains(ret.detail, Source) /\ Contains(ret.detail, Target)
        /\ ~ret.success => "error" \in DOMAIN ret
        /\ (/\ ~existsSync(pre, Target) /\ CanMake(pre, Target)
            /\ ~IsPrefix(Source, Target) /\ ~IsPrefix(Target, Source)
            /\ \E n \in 0..PathMax : Height(pre, Source, n) /\ Len(Target) + n <= PathMax)
              => ret.success

\* a missing target two levels below an existing directory is created with
\* its parent and receives the file of the source
C17_Witness ==
    /\ op = "one"
    /\ IsDir(pre, Source)
    /\ ~existsSync(pre, Target)
    /\ ~existsSync(pre, dirname(Target))
    /\ ret.success
    /\ IsDir(fs, Target)
    /\ \E n \in Names : IsFile(pre, join(Source, n)) /\ IsFile(fs, join(Target, n))

\* ------------------------------------------------------------------------
\* C19: mappings of one batch that carry the same id are not merged: each
\* enabled one is executed on the filesystem its predecessors left and has
\* its own result, in input order, carrying that id.
\* ------------------------------------------------------------------------
C19_DuplicateIdsNotMerged ==
    (op = "all" /\ \E j, k \in 1..Len(EnabledOf(arg)) :
                      j # k /\ EnabledOf(arg)[j].id = EnabledOf(arg)[k].id) =>
        /\ Len(ret.results) = Len(EnabledOf(arg))
        /\ \A k \in 1..Len(EnabledOf(arg)) :
              /\ ret.results[k].id = EnabledOf(arg)[k].id
              /\ ret.results[k]
                    = WithId(EnabledOf(arg)[k],
                             executeSyncMapping(FsAfter(pre, EnabledOf(arg), k - 1),
                                                EnabledOf(arg)[k], order).result)
        /\ fs = FsAfter(pre, EnabledOf(arg), Len(EnabledOf(arg)))

\* two different mappings with one id: both changed the filesystem
C19_Witness ==
    /\ op = "all"
    /\ Len(arg) = 2
    /\ arg[1].id = arg[2].id
    /\ arg[1].enabled /\ arg[2].enabled
    /\ arg[1].target # arg[2].target
    /\ Len(ret.results) = 2
    /\ ret.results[1].id = arg[1].id /\ ret.results[2].id = arg[1].id
    /\ ret.results[1].success /\ ret.results[2].success
    /\ FsAfter(pre, arg, 1) # pre
    /\ fs # FsAfter(pre, arg, 1)

\* ------------------------------------------------------------------------
\* C20: with the enabled file mappings A: x -> y and B: y -> z in one batch
\* (x a file, y and z no directories), the file z ends with the content x
\* had when the batch started if A comes before B, and with the content y
\* had then if B comes before A.
\* ------------------------------------------------------------------------
PathX == resolve(MappingA(TRUE).source)
PathY == resolve(MappingA(TRUE).target)
PathZ == resolve(MappingB(TRUE).target)

C20_OrderDependent ==
    (op = "all" /\ IsFile(pre, PathX) /\ ~IsDir(pre, PathY) /\ ~IsDir(pre, PathZ)) =>
        /\ EnabledOf(arg) = <<MappingA(TRUE), MappingB(TRUE)>>
              => (IsFile(fs, PathZ) /\ fs[PathZ] = pre[PathX])
        /\ (EnabledOf(arg) = <<MappingB(TRUE), MappingA(TRUE)>> /\ IsFile(pre, PathY))
              => (IsFile(fs, PathZ) /\ fs[PathZ] = pre[PathY])

\* B ran before A on files x and y of different content
C20_Witness ==
    /\ op = "all"
    /\ arg = <<MappingB(TRUE), MappingA(TRUE)>>
    /\ IsFile(pre, PathX) /\ IsFile(pre, PathY)
    /\ pre[PathX] # pre[PathY]
    /\ fs[PathZ] = pre[PathY]
    /\ fs[PathY] = pre[PathX]

\* ------------------------------------------------------------------------
\* C18: whenever a commit issued from the UI succeeds while enabled
\* mappings are configured, syncAll is invoked afterwards without a further
\* action of the user.
\* ------------------------------------------------------------------------
C18_SyncFollowsCommit ==
    (ui.commit = "ok" /\ EnabledOf(ui.syncMappings) # <<>>) ~> ui.syncedSinceCommit

\* ------------------------------------------------------------------------
\* C21: a call of sync:executeOne on a directory copies a number of entries
\* bounded by the size of the source tree as it was when the call started:
\* the entries it creates or rewrites below the target are at most as many
\* as the entries below the source, also when the target lies inside the
\* source.
\* ------------------------------------------------------------------------
Copied == {p \in DOMAIN fs : /\ ProperAncestor(Target, p)
                             /\ (p \notin DOMAIN pre \/ fs[p] # pre[p])}

C21_CopyBoundedBySource ==
    (CalledOne /\ IsDir(pre, Source)) =>
        Cardinality(Copied) <= Cardinality({p \in DOMAIN pre : ProperAncestor(Source, p)})

\* ------------------------------------------------------------------------
\* C22: a mapping with an empty source or an empty target is never
\* executed: sync:executeOne called with such a mapping leaves the
\* filesystem as it was.
\* ------------------------------------------------------------------------
EmptyPath == Rel(<<>>)

C22_EmptyPathNotExecuted ==
    (CalledOne /\ (arg.source = EmptyPath \/ arg.target = EmptyPath)) => fs = pre

\* ------------------------------------------------------------------------
\* renderer: the sync configuration dialog (SyncConfigDialog)
\* ------------------------------------------------------------------------
\* what the user may type into a path field: a text is the sequence of its
\* characters
Texts == {<<>>, <<" ">>, <<" ", "b">>, <<"b", " ">>}

RECURSIVE trimStart(_)
trimStart(t) == IF t # <<>> /\ Head(t) = " " THEN trimStart(Tail(t)) ELSE t

RECURSIVE trimEnd(_)
trimEnd(t) ==
    IF t # <<>> /\ t[Len(t)] = " " THEN trimEnd(SubSeq(t, 1, Len(t) - 1)) ELSE t

\* String.prototype.trim
trim(t) == trimEnd(trimStart(t))

\* the system's wall clock goes on, or is set (forward or back)
Clock ==
    /\ \E t \in 1..MaxTime :
          /\ t # dialog.now
          /\ dialog' = [dialog EXCEPT !.now = t]
    /\ op' = "clock"
    /\ UNCHANGED <<fs, pre, order, arg, ret, run, denied, ui, ipc>>

\* the title bar button mounts the dialog: its local list starts as a copy
\* of the mappings of MainLayout and the form is hidden and empty
OpenDialog ==
    /\ ~dialog.open
    /\ dialog' = [dialog EXCEPT !.open = TRUE, !.localMappings = ui.syncMappings,
                                !.adding = FALSE, !.newSource = <<>>, !.newTarget = <<>>]
    /\ op' = "open"
    /\ UNCHANGED <<fs, pre, order, arg, ret, run, denied, ui, ipc>>

\* onClose: the dialog is unmounted and its local state is gone
CloseDialog ==
    /\ dialog.open
    /\ dialog' = [dialog EXCEPT !.open = FALSE, !.localMappings = <<>>,
                                !.adding = FALSE, !.newSource = <<>>, !.newTarget = <<>>]
    /\ op' = "close"
    /\ UNCHANGED <<fs, pre, order, arg, ret, run, denied, ui, ipc>>

\* the button that shows the form, and the form's cancel button
SetAdding ==
    /\ dialog.open
    /\ dialog' = [dialog EXCEPT !.adding = ~dialog.adding,
                                !.newSource = <<>>, !.newTarget = <<>>]
    /\ op' = "adding"
    /\ UNCHANGED <<fs, pre, order, arg, ret, run, denied, ui, ipc>>

\* the user edits a path field of the form
SetNewSource ==
    /\ dialog.open /\ dialog.adding
    /\ \E t \in Texts :
          /\ t # dialog.newSource
          /\ dialog' = [dialog EXCEPT !.newSource = t]
    /\ op' = "source"
    /\ UNCHANGED <<fs, pre, order, arg, ret, run, denied, ui, ipc>>

SetNewTarget ==
    /\ dialog.open /\ dialog.adding
    /\ \E t \in Texts :
          /\ t # dialog.newTarget
          /\ dialog' = [dialog EXCEPT !.newTarget = t]
    /\ op' = "target"
    /\ UNCHANGED <<fs, pre, order, arg, ret, run, denied, ui, ipc>>

\* the mapping handleAdd makes of the form at time now
newMapping(now, newSource, newTarget) ==
    [id |-> toString(now), source |-> trim(newSource), target |-> trim(newTarget),
     enabled |-> TRUE]

\* handleAdd: nothing happens unless both fields hold more than blanks
handleAdd ==
    /\ dialog.open /\ dialog.adding
    /\ trim(dialog.newSource) # <<>>
    /\ trim(dialog.newTarget) # <<>>
    /\ Len(dialog.localMappings) < MaxLocal
    /\ dialog' = [dialog EXCEPT
                    !.localMappings =
                        Append(@, newMapping(dialog.now, dialog.newSource, dialog.newTarget)),
                    !.newSource = <<>>, !.newTarget = <<>>, !.adding = FALSE]
    /\ op' = "add"
    /\ UNCHANGED <<fs, pre, order, arg, ret, run, denied, ui, ipc>>

\* the list without the mappings of that id
removed(list, id) == SelectSeq(list, LAMBDA m : m.id # id)

\* the list with the mappings of that id switched
toggled(list, id) ==
    [i \in 1..Len(list) |->
        IF list[i].id = id THEN [list[i] EXCEPT !.enabled = ~list[i].enabled]
        ELSE list[i]]

\* handleRemove(id), from the delete button of a mapping of the list
handleRemove ==
    /\ dialog.open
    /\ \E k \in 1..Len(dialog.localMappings) :
          /\ arg' = dialog.localMappings[k].id
          /\ dialog' = [dialog EXCEPT !.localMappings =
                            removed(dialog.localMappings, dialog.localMappings[k].id)]
    /\ op' = "remove"
    /\ UNCHANGED <<fs, pre, order, ret, run, denied, ui, ipc>>

\* handleToggle(id), from the switch of a mapping of the list
handleToggle ==
    /\ dialog.open
    /\ \E k \in 1..Len(dialog.localMappings) :
          /\ arg' = dialog.localMappings[k].id
          /\ dialog' = [dialog EXCEPT !.localMappings =
                            toggled(dialog.localMappings, dialog.localMappings[k].id)]
    /\ op' = "toggle"
    /\ UNCHANGED <<fs, pre, order, ret, run, denied, ui, ipc>>

\* handleSave: onSave, which is handleSaveSyncMappings of MainLayout, and
\* onClose
handleSave ==
    /\ dialog.open
    /\ ui' = [ui EXCEPT !.syncMappings = dialog.localMappings,
                        !.notification = "sync config saved"]
    /\ dialog' = [dialog EXCEPT !.open = FALSE, !.localMappings = <<>>,
                                !.adding = FALSE, !.newSource = <<>>, !.newTarget = <<>>]
    /\ op' = "save"
    /\ UNCHANGED <<fs, pre, order, arg, ret, run, denied, ipc>>

NextDialog ==
    \/ Clock \/ OpenDialog \/ CloseDialog \/ SetAdding \/ SetNewSource \/ SetNewTarget
    \/ handleAdd \/ handleRemove \/ handleToggle \/ handleSave

SpecDialog == Init /\ [][NextDialog]_vars

\* ------------------------------------------------------------------------
\* C23: after any sequence of add, remove, toggle and save operations in
\* the sync configuration dialog, every mapping of the list has a non-empty
\* id and no two mappings of the list share an id.
\* ------------------------------------------------------------------------
C23_IdsUnique ==
    \A i, j \in 1..Len(dialog.localMappings) :
        /\ dialog.localMappings[i].id # ""
        /\ i # j => dialog.localMappings[i].id # dialog.localMappings[j].id

\* ------------------------------------------------------------------------
\* C24: in every tree a read returns, at every level, a node has a children
\* sequence if and only if its isDirectory flag is true (a file node has no
\* children field, a directory node always has one, possibly empty), and
\* the path of a node is the path of the directory it was listed in joined
\* with its name.
\* ------------------------------------------------------------------------
C24_ChildrenIffDirectory ==
    CalledRead =>
        \A l \in Listed : \A k \in 1..Len(l.nodes) :
            /\ ("children" \in DOMAIN l.nodes[k]) <=> l.nodes[k].isDirectory
            /\ l.nodes[k].isDirectory =>
                   DOMAIN l.nodes[k].children = 1..Len(l.nodes[k].children)
            /\ l.nodes[k].path = join(l.dir, l.nodes[k].name)

\* a tree with a directory node that has children, a directory node that
\* has none and a file node, one of them below the first level
C24_Witness ==
    /\ CalledRead
    /\ \E l \in Listed : \E k \in 1..Len(l.nodes) :
          l.nodes[k].isDirectory /\ l.nodes[k].children # <<>>
    /\ \E l \in Listed : \E k \in 1..Len(l.nodes) :
          l.nodes[k].isDirectory /\ l.nodes[k].children = <<>>
    /\ \E l \in Listed : \E k \in 1..Len(l.nodes) :
          /\ ~l.nodes[k].isDirectory
          /\ l.dir # arg.dirPath

\* ------------------------------------------------------------------------
\* C25: the sync report of the UI follows the results of the mappings, not
\* the flag of the batch: after syncAll returned, the notification is the
\* completion message exactly when no result has success = false, and
\* otherwise the partial failure message with the number of results that
\* have success = false; it is never the message for a failed execution.
\* ------------------------------------------------------------------------
\* the last step was a click on the sync button that invoked syncAll
SyncReported == op = "sync" /\ ui.syncMappings # <<>> /\ ui.lastSync # <<>>

FailedResults ==
    {k \in 1..Len(ui.lastSync[1].results) : ~ui.lastSync[1].results[k].success}

C25_ReportFollowsResults ==
    SyncReported =>
        /\ ui.notification = "sync done" <=> FailedResults = {}
        /\ FailedResults # {} =>
               ui.notification =
                   "sync partly failed: " \o toString(Cardinality(FailedResults)) \o " items"
        /\ ui.notification # "sync failed"

\* syncAll returned two results, one of them a failure, and the UI reports
\* one failed item
C25_Witness ==
    /\ SyncReported
    /\ Len(ui.lastSync[1].results) = 2
    /\ Cardinality(FailedResults) = 1
    /\ ui.notification = "sync partly failed: 1 items"

\* ------------------------------------------------------------------------
\* C26: sync:executeOne does not consult the enabled flag: what it does to
\* the filesystem and what it returns for a mapping are what it does and
\* returns for the same mapping with the flag switched; sync:executeAll
\* called with disabled mappings only changes nothing and has no results.
\* ------------------------------------------------------------------------
Twin == [arg EXCEPT !.enabled = ~arg.enabled]

C26_OneIgnoresEnabled ==
    /\ op = "one" =>
          /\ fs = executeOne(pre, Twin, order).fs
          /\ ret = executeOne(pre, Twin, order).ret
    /\ (op = "all" /\ \A k \in 1..Len(arg) : ~arg[k].enabled) =>
          /\ fs = pre
          /\ ret.results = <<>>

\* a disabled mapping given to sync:executeOne copied its source
C26_Witness ==
    /\ op = "one"
    /\ ~arg.enabled
    /\ ret.success
    /\ fs # pre
    /\ executeAll(pre, <<arg>>, order).fs = pre

\* ------------------------------------------------------------------------
\* C27: sync never modifies its source: when the target path is neither the
\* source path, nor inside it, nor an ancestor of it, the source file or
\* directory tree (names, kinds and contents) is after sync:executeOne what
\* it was before, whether the call succeeded or failed.
\* ------------------------------------------------------------------------
Apart == ~IsPrefix(Source, Target) /\ ~IsPrefix(Target, Source)

C27_SourceUntouched ==
    (CalledOne /\ Apart) =>
        \A p \in DOMAIN pre \cup DOMAIN fs :
            IsPrefix(Source, p) => /\ p \in DOMAIN pre
                                   /\ p \in DOMAIN fs
                                   /\ fs[p] = pre[p]

\* a source directory with an entry was copied to a target apart from it
C27_Witness ==
    /\ CalledOne
    /\ Apart
    /\ IsDir(pre, Source)
    /\ \E n \in Names : IsFile(pre, join(Source, n)) /\ IsFile(fs, join(Target, n))
    /\ ret.success
    /\ fs # pre

\* ------------------------------------------------------------------------
\* C28: a failing directory copy stops at the first error and is not rolled
\* back: when the copy of an entry of the source directory fails,
\* sync:executeOne returns success = false with that error, every entry
\* listed before the failing one is in the target, and no entry listed
\* after it is copied.
\* ------------------------------------------------------------------------
\* the filesystem once copyDirSync has ensured the target, and the entries
\* of the source it then lists
Ensured == IF existsSync(pre, Target) THEN pre ELSE mkdirSync(pre, Target).fs

SourceEntries == readdirSync(Ensured, Source, order)

\* the copy of the first k entries
CopyOf(k) == copyEntries(Ensured, Source, Target, SubSeq(SourceEntries, 1, k), order)

\* the k-th entry is the first whose copy fails
FirstFailing(k) ==
    /\ k \in 1..Len(SourceEntries)
    /\ CopyOf(k).err # NoErr
    /\ CopyOf(k - 1).err = NoErr

\* the j-th entry of the source is in the target: a file with its content, a
\* directory by its name
InTarget(j) ==
    IF SourceEntries[j].isDir THEN join(Target, SourceEntries[j].name) \in DOMAIN fs
    ELSE /\ IsFile(fs, join(Target, SourceEntries[j].name))
         /\ fs[join(Target, SourceEntries[j].name)]
                = Ensured[join(Source, SourceEntries[j].name)]

\* the place of the j-th entry in the target is as it was
NotCopied(j) ==
    \A p \in DOMAIN Ensured \cup DOMAIN fs :
        IsPrefix(join(Target, SourceEntries[j].name), p) =>
            /\ p \in DOMAIN Ensured
            /\ p \in DOMAIN fs
            /\ fs[p] = Ensured[p]

\* the copy of the k-th entry failed with err
Stopped(k, err) ==
    /\ ~ret.success
    /\ ret.error = ErrorString(err)
    /\ \A j \in 1..(k - 1) : InTarget(j)
    /\ \A j \in (k + 1)..Len(SourceEntries) : NotCopied(j)

\* the entries from the k-th on are copied one by one, starting from f, and
\* at the first copy that fails the copy has stopped
RECURSIVE StopsFrom(_, _, _), StopsAfter(_, _, _)
StopsFrom(f, entries, k) ==
    IF k > Len(entries) THEN TRUE
    ELSE StopsAfter(copyEntries(f, Source, Target, SubSeq(entries, k, k), order), entries, k)

StopsAfter(r, entries, k) ==
    IF r.err # NoErr THEN Stopped(k, r.err) ELSE StopsFrom(r.fs, entries, k + 1)

C28_StopsAtFirstError ==
    (CalledOne /\ IsDir(pre, Source) /\ existsSync(Ensured, Target)) =>
        StopsFrom(Ensured, SourceEntries, 1)

\* the first entry was copied into the target, where it was not before, and
\* the copy of the second failed
C28_Witness ==
    /\ CalledOne
    /\ IsDir(pre, Source)
    /\ existsSync(Ensured, Target)
    /\ Len(SourceEntries) = 2
    /\ FirstFailing(2)
    /\ ~ret.success
    /\ join(Target, SourceEntries[1].name) \notin DOMAIN pre
    /\ InTarget(1)

\* ------------------------------------------------------------------------
\* renderer and main process: several sync requests in flight
\* ------------------------------------------------------------------------
\* what the renderer passes to window.api.syncAll and window.api.syncOne
IpcRequests ==
    {[kind |-> "all", mappings |-> l] :
        l \in { <<MappingA(TRUE)>>, <<MappingA(TRUE), MappingB(TRUE)>>,
                <<MappingB(TRUE), MappingA(TRUE)>>, <<MappingA(FALSE), MappingB(TRUE)>> }}
    \cup {[kind |-> "one", mappings |-> <<m>>] : m \in {MappingA(TRUE), MappingB(FALSE)}}

\* window.api.syncAll(mappings) / window.api.syncOne(mapping): ipcRenderer.invoke
\* sends the request and returns a promise; the renderer may invoke again
\* before the promise settles, also while a handler runs in the main process
Invoke ==
    /\ ipc.count < MaxRequests
    /\ \E r \in IpcRequests :
          ipc' = [ipc EXCEPT !.count = ipc.count + 1,
                             !.invoked = @ \cup {[id |-> ipc.count + 1, kind |-> r.kind,
                                                  mappings |-> r.mappings]}]
    /\ pre' = IF ipc.count = 0 THEN fs ELSE pre
    /\ op' = "invoke"
    /\ UNCHANGED <<fs, order, arg, ret, run, denied, ui, dialog>>

\* the handler called for request r, before its first round
handlerOf(r) == [id |-> r.id, kind |-> r.kind, mappings |-> r.mappings, i |-> 1,
                 results |-> <<>>]

\* variant: a request is dispatched while a handler is between two rounds
Dispatch_WhileRunning ==
    /\ \E r \in ipc.invoked :
          ipc' = [ipc EXCEPT !.invoked = @ \ {r}, !.running = Append(@, handlerOf(r))]
    /\ op' = "dispatch"
    /\ UNCHANGED <<fs, pre, order, arg, ret, run, denied, ui, dialog>>

\* the main process takes a request and calls its handler; the body of the
\* handler has no await, so the event loop takes no other request before
\* the handler has returned
Dispatch ==
    /\ ipc.running = <<>>
    /\ \E r \in ipc.invoked :
          ipc' = [ipc EXCEPT !.invoked = @ \ {r}, !.running = Append(@, handlerOf(r))]
    /\ op' = "dispatch"
    /\ UNCHANGED <<fs, pre, order, arg, ret, run, denied, ui, dialog>>

\* s without its k-th element
Without(s, k) == SubSeq(s, 1, k - 1) \o SubSeq(s, k + 1, Len(s))

\* the round of handler h: one round of the loop of sync:executeAll, or the
\* call of executeSyncMapping of sync:executeOne
roundOf(h, f, ord) ==
    IF h.kind = "all" THEN loopIteration(f, h.mappings, h.i, h.results, ord)
    ELSE iterated(executeSyncMapping(f, h.mappings[1], ord), f, h.mappings, 1, h.results)

\* the round it of the k-th running handler is over
RoundDone(k, it) ==
    /\ fs' = it.fs
    /\ ipc' = [ipc EXCEPT
                 !.running = IF it.thrown # NoErr THEN Without(@, k)
                             ELSE [@ EXCEPT ![k].i = @ + 1, ![k].results = it.results],
                 !.log = @ \o [e \in 1..Len(it.events) |-> ipc.running[k].id],
                 !.returned = IF it.thrown # NoErr
                              THEN Append(@, [id |-> ipc.running[k].id,
                                              kind |-> ipc.running[k].kind,
                                              mappings |-> ipc.running[k].mappings,
                                              ret |-> Rejected(it.thrown)])
                              ELSE @]

HandlerRound ==
    /\ \E k \in 1..Len(ipc.running) :
          /\ ipc.running[k].i <= Len(ipc.running[k].mappings)
          /\ RoundDone(k, roundOf(ipc.running[k], fs, order))
    /\ op' = "round"
    /\ UNCHANGED <<pre, order, arg, ret, run, denied, ui, dialog>>

\* what handler h returns after its last round
returnOf(h, f) ==
    IF h.kind = "all" THEN batchReturn(Return(f, h.results), TRUE).ret ELSE h.results[1]

\* the handler returns and its promise in the renderer is resolved
HandlerReturn ==
    /\ \E k \in 1..Len(ipc.running) :
          /\ ipc.running[k].i > Len(ipc.running[k].mappings)
          /\ ipc' = [ipc EXCEPT
                       !.running = Without(@, k),
                       !.returned = Append(@, [id |-> ipc.running[k].id,
                                               kind |-> ipc.running[k].kind,
                                               mappings |-> ipc.running[k].mappings,
                                               ret |-> returnOf(ipc.running[k], fs)])]
    /\ op' = "return"
    /\ UNCHANGED <<fs, pre, order, arg, ret, run, denied, ui, dialog>>

NextIpc == EnvCreateBatch \/ Invoke \/ Dispatch \/ HandlerRound \/ HandlerReturn

SpecIpc == Init /\ [][NextIpc]_vars

\* ------------------------------------------------------------------------
\* C29: sync requests are atomic with respect to each other: the filesystem
\* operations of requests issued concurrently never interleave, each
\* request's mappings run to completion before another request starts, and
\* the filesystem and the return values are those of the requests handled
\* one after the other in the order of their returns.
\* ------------------------------------------------------------------------
\* the handler call for a returned request, on filesystem f
handled(f, r) ==
    IF r.kind = "all" THEN executeAll(f, r.mappings, order)
    ELSE executeOne(f, r.mappings[1], order)

\* the filesystem after the first k returned requests ran one after the
\* other, starting from f
RECURSIVE SerialFs(_, _)
SerialFs(f, k) == IF k = 0 THEN f ELSE handled(SerialFs(f, k - 1), ipc.returned[k]).fs

C29_RequestsSerial ==
    /\ Len(ipc.running) <= 1
    /\ \A a, b, c \in 1..Len(ipc.log) :
          (a < b /\ b < c /\ ipc.log[a] = ipc.log[c]) => ipc.log[b] = ipc.log[a]
    /\ ipc.running = <<>> =>
          /\ fs = SerialFs(pre, Len(ipc.returned))
          /\ \A k \in 1..Len(ipc.returned) :
                ipc.returned[k].ret = handled(SerialFs(pre, k - 1), ipc.returned[k]).ret

\* two requests were in flight together, both have returned, each ran a
\* mapping, and the other order of handling would have left another
\* filesystem
C29_Witness ==
    /\ Len(ipc.returned) = 2
    /\ ipc.running = <<>>
    /\ ipc.invoked = {}
    /\ \E a, b \in 1..Len(ipc.log) : ipc.log[a] # ipc.log[b]
    /\ Len(ipc.log) >= 3
    /\ fs # handled(handled(pre, ipc.returned[2]).fs, ipc.returned[1]).fs

\* ------------------------------------------------------------------------
\* C30: after any interleaving of edit, save and commit actions with their
\* file writes, an open tab whose modified flag is false shows the content
\* last successfully written to disk (or read from it) for its path.
\* ------------------------------------------------------------------------
C30_UnmodifiedIsOnDisk ==
    \A k \in 1..Len(ui.openTabs) :
        ~ui.openTabs[k].modified => ui.openTabs[k].content = ui.openTabs[k].disk

====
